---- MODULE Spec2Model ----
(***************************************************************************)
(* Session coordinator of the OpenAI Assistant chat frontend: the App      *)
(* component (conversation log, document registry, localStorage slot), the *)
(* FileUpload component (upload state) and the remote service they call.   *)
(* Text is modelled as a sequence of one-character strings, so that trim,  *)
(* JSON.stringify and JSON.parse are computed character by character.      *)
(***************************************************************************)
EXTENDS Integers, Sequences, FiniteSets, TLC

(***************************************************************************)
(* Bounds of the model.                                                    *)
(***************************************************************************)
\* longest conversation log the model lets a session build
MaxMsgs == 3
\* number of uploads the remote store accepts over the whole run
MaxUploads == 1

(***************************************************************************)
(* Text constants of App.js.                                               *)
(***************************************************************************)
RoleUser == <<"u", "s", "e", "r">>

RoleAssistant == <<"a", "s", "s", "i", "s", "t", "a", "n", "t">>

KeyRole == <<"r", "o", "l", "e">>

KeyContent == <<"c", "o", "n", "t", "e", "n", "t">>

NullLiteral == <<"n", "u", "l", "l">>

FallbackContent == <<
    "S","o","r","r","y",","," ","I"," ","e","n","c","o","u","n","t","e","r",
    "e","d"," ","a","n"," ","e","r","r","o","r","."," ","P","l","e","a","s",
    "e"," ","t","r","y"," ","a","g","a","i","n","." >>

UploadPrefix == <<"F", "i", "l", "e", " ", "\"">>

UploadSuffix == <<
    "\""," ","h","a","s"," ","b","e","e","n"," ","u","p","l","o","a","d",
    "e","d"," ","s","u","c","c","e","s","s","f","u","l","l","y","."," ","Y",
    "o","u"," ","c","a","n"," ","n","o","w"," ","a","s","k"," ","q","u","e",
    "s","t","i","o","n","s"," ","a","b","o","u","t"," ","i","t","s"," ","c",
    "o","n","t","e","n","t","." >>

DeleteOkContent == <<
    "D","o","c","u","m","e","n","t"," ","h","a","s"," ","b","e","e","n"," ",
    "d","e","l","e","t","e","d"," ","s","u","c","c","e","s","s","f","u","l",
    "l","y","." >>

DeleteErrContent == <<
    "E","r","r","o","r"," ","d","e","l","e","t","i","n","g"," ","d","o","c",
    "u","m","e","n","t","."," ","P","l","e","a","s","e"," ","t","r","y"," ",
    "a","g","a","i","n","." >>

Message(role, content) == [role |-> role, content |-> content]

FallbackMessage == Message(RoleAssistant, FallbackContent)

UploadedMessage(fileName) ==
    Message(RoleAssistant, UploadPrefix \o fileName \o UploadSuffix)

DeleteOkMessage == Message(RoleAssistant, DeleteOkContent)

DeleteErrMessage == Message(RoleAssistant, DeleteErrContent)

(***************************************************************************)
(* String.prototype.trim: strips white space at both ends.                 *)
(***************************************************************************)
IsWhiteSpace(c) == c \in {" ", "\t", "\n", "\r"}

RECURSIVE TrimStart(_)
TrimStart(s) ==
    IF s = <<>> THEN <<>>
    ELSE IF IsWhiteSpace(Head(s)) THEN TrimStart(Tail(s)) ELSE s

RECURSIVE TrimEnd(_)
TrimEnd(s) ==
    IF s = <<>> THEN <<>>
    ELSE IF IsWhiteSpace(s[Len(s)]) THEN TrimEnd(SubSeq(s, 1, Len(s) - 1))
    ELSE s

Trim(s) == TrimEnd(TrimStart(s))

(***************************************************************************)
(* JSON.stringify of the message array: [{"role":"..","content":".."},..]  *)
(* with the quote and the backslash of a string escaped.                   *)
(***************************************************************************)
\* escaping works from one quote or backslash to the next
NeedsEscape(c) == c \in {"\"", "\\"}

JSONEscapeNothing(s) == s

RECURSIVE JSONEscape(_)
JSONEscape(s) ==
    LET special == {k \in 1..Len(s) : NeedsEscape(s[k])} IN
    IF special = {} THEN s
    ELSE LET k == CHOOSE x \in special : \A y \in special : x <= y IN
         SubSeq(s, 1, k - 1) \o <<"\\", s[k]>>
             \o JSONEscape(SubSeq(s, k + 1, Len(s)))

JSONQuote(s) == <<"\"">> \o JSONEscape(s) \o <<"\"">>

StringifyMessage(m) ==
    <<"{">> \o JSONQuote(KeyRole) \o <<":">> \o JSONQuote(m.role) \o <<",">>
        \o JSONQuote(KeyContent) \o <<":">> \o JSONQuote(m.content) \o <<"}">>

RECURSIVE StringifyElements(_)
StringifyElements(msgs) ==
    IF msgs = <<>> THEN <<>>
    ELSE IF Len(msgs) = 1 THEN StringifyMessage(msgs[1])
    ELSE StringifyMessage(Head(msgs)) \o <<",">> \o StringifyElements(Tail(msgs))

JSONStringify(msgs) == <<"[">> \o StringifyElements(msgs) \o <<"]">>

(***************************************************************************)
(* JSON.parse, for the JSON values null, string, array and object (the     *)
(* values the slot contents of this model are made of).  A parsed value is *)
(* [t, s, a]: t its type, s the characters of a string, a the elements of  *)
(* an array or the members [k, v] of an object.  ok = FALSE stands for the *)
(* SyntaxError JSON.parse throws.                                          *)
(***************************************************************************)
NullValue == [t |-> "null", s |-> <<>>, a |-> <<>>]

ParseFail == [ok |-> FALSE, pos |-> 0, val |-> NullValue]

RECURSIVE SkipWhiteSpace(_, _)
SkipWhiteSpace(s, i) ==
    IF i <= Len(s) /\ IsWhiteSpace(s[i]) THEN SkipWhiteSpace(s, i + 1) ELSE i

\* the number of backslashes that directly precede position j, from i on
BackslashRun(s, i, j) ==
    IF j <= i \/ s[j - 1] # "\\" THEN 0
    ELSE LET stops == {k \in (i - 1)..(j - 1) : k = i - 1 \/ s[k] # "\\"}
             last == CHOOSE k \in stops : \A k2 \in stops : k2 <= k
         IN  j - 1 - last

\* position j of a string literal that starts at i follows an escaping backslash
IsEscaped(s, i, j) == BackslashRun(s, i, j) % 2 = 1

\* the characters of s[from..to] with every escape s[k], s[k+1] replaced by
\* the escaped character; starts are the positions of the escaping backslashes
RECURSIVE Unescape(_, _, _, _)
Unescape(s, from, to, starts) ==
    LET here == {k \in starts : k >= from} IN
    IF here = {} THEN SubSeq(s, from, to)
    ELSE LET k == CHOOSE x \in here : \A y \in here : x <= y IN
         SubSeq(s, from, k - 1) \o <<s[k + 1]>> \o Unescape(s, k + 2, to, starts)

\* the string literal whose opening quote is right before position i
ScanString(s, i) ==
    LET closers == {j \in i..Len(s) : s[j] = "\"" /\ ~IsEscaped(s, i, j)} IN
    IF closers = {} THEN ParseFail
    ELSE LET close == CHOOSE x \in closers : \A y \in closers : x <= y
             starts == {k \in i..(close - 1) :
                           s[k] = "\\" /\ ~IsEscaped(s, i, k)}
         IN  IF \/ \E k \in starts : s[k + 1] \notin {"\"", "\\", "/"}
                \/ \E k \in i..(close - 1) : s[k] \in {"\n", "\r", "\t"}
             THEN ParseFail
             ELSE [ok |-> TRUE, pos |-> close + 1,
                   val |-> [t |-> "str", a |-> <<>>,
                            s |-> Unescape(s, i, close - 1, starts)]]

RECURSIVE ParseValueAt(_, _)
RECURSIVE ParseElements(_, _, _)
RECURSIVE ParseMembers(_, _, _)

ParseValueAt(s, i0) ==
    LET i == SkipWhiteSpace(s, i0) IN
    IF i > Len(s) THEN ParseFail
    ELSE IF s[i] = "\"" THEN ScanString(s, i + 1)
    ELSE IF s[i] = "n" THEN
        IF i + 3 <= Len(s) /\ SubSeq(s, i, i + 3) = NullLiteral
        THEN [ok |-> TRUE, pos |-> i + 4, val |-> NullValue]
        ELSE ParseFail
    ELSE IF s[i] = "[" THEN
        LET j == SkipWhiteSpace(s, i + 1) IN
        IF j <= Len(s) /\ s[j] = "]"
        THEN [ok |-> TRUE, pos |-> j + 1,
              val |-> [t |-> "arr", s |-> <<>>, a |-> <<>>]]
        ELSE ParseElements(s, i + 1, <<>>)
    ELSE IF s[i] = "{" THEN
        LET j == SkipWhiteSpace(s, i + 1) IN
        IF j <= Len(s) /\ s[j] = "}"
        THEN [ok |-> TRUE, pos |-> j + 1,
              val |-> [t |-> "obj", s |-> <<>>, a |-> <<>>]]
        ELSE ParseMembers(s, i + 1, <<>>)
    ELSE ParseFail

\* the elements of an array from position i on, acc the elements read so far
ParseElements(s, i, acc) ==
    LET e == ParseValueAt(s, i) IN
    IF ~e.ok THEN ParseFail
    ELSE LET j == SkipWhiteSpace(s, e.pos) IN
         IF j > Len(s) THEN ParseFail
         ELSE IF s[j] = "," THEN ParseElements(s, j + 1, Append(acc, e.val))
         ELSE IF s[j] = "]" THEN
             [ok |-> TRUE, pos |-> j + 1,
              val |-> [t |-> "arr", s |-> <<>>, a |-> Append(acc, e.val)]]
         ELSE ParseFail

\* the members of an object from position i on, acc the members read so far
ParseMembers(s, i, acc) ==
    LET k0 == SkipWhiteSpace(s, i) IN
    IF k0 > Len(s) \/ s[k0] # "\"" THEN ParseFail
    ELSE LET k == ScanString(s, k0 + 1) IN
         IF ~k.ok THEN ParseFail
         ELSE LET c == SkipWhiteSpace(s, k.pos) IN
              IF c > Len(s) \/ s[c] # ":" THEN ParseFail
              ELSE LET v == ParseValueAt(s, c + 1) IN
                   IF ~v.ok THEN ParseFail
                   ELSE LET j == SkipWhiteSpace(s, v.pos)
                            m == Append(acc, [k |-> k.val.s, v |-> v.val])
                        IN  IF j > Len(s) THEN ParseFail
                            ELSE IF s[j] = "," THEN ParseMembers(s, j + 1, m)
                            ELSE IF s[j] = "}" THEN
                                [ok |-> TRUE, pos |-> j + 1,
                                 val |-> [t |-> "obj", s |-> <<>>, a |-> m]]
                            ELSE ParseFail

JSONParse(s) ==
    LET r == ParseValueAt(s, 1) IN
    IF r.ok /\ SkipWhiteSpace(s, r.pos) > Len(s)
    THEN [ok |-> TRUE, val |-> r.val]
    ELSE [ok |-> FALSE, val |-> NullValue]

\* obj[key] of a parsed object: the last member of that name
HasMember(obj, key) == \E i \in 1..Len(obj.a) : obj.a[i].k = key

Member(obj, key) ==
    obj.a[CHOOSE i \in 1..Len(obj.a) :
            /\ obj.a[i].k = key
            /\ \A j \in (i + 1)..Len(obj.a) : obj.a[j].k # key].v

\* a parsed value the chat view can render: an array of {role, content}
IsMessageArray(val) ==
    /\ val.t = "arr"
    /\ \A i \in 1..Len(val.a) :
          /\ val.a[i].t = "obj"
          /\ HasMember(val.a[i], KeyRole) /\ Member(val.a[i], KeyRole).t = "str"
          /\ HasMember(val.a[i], KeyContent)
          /\ Member(val.a[i], KeyContent).t = "str"

AsMessages(val) ==
    [i \in 1..Len(val.a) |->
        Message(Member(val.a[i], KeyRole).s, Member(val.a[i], KeyContent).s)]

(***************************************************************************)
(* utils/webSearchDetection.js                                             *)
(***************************************************************************)
UpperCase == <<"A", "B", "C", "D", "E", "F", "G", "H", "I", "J", "K", "L", "M", "N", "O", "P", "Q", "R", "S", "T", "U", "V", "W", "X", "Y", "Z">>

LowerCase == <<"a", "b", "c", "d", "e", "f", "g", "h", "i", "j", "k", "l", "m", "n", "o", "p", "q", "r", "s", "t", "u", "v", "w", "x", "y", "z">>

ToLowerChar(c) ==
    IF \E i \in 1..Len(UpperCase) : UpperCase[i] = c
    THEN LowerCase[CHOOSE i \in 1..Len(UpperCase) : UpperCase[i] = c]
    ELSE c

toLowerCase(s) == [i \in 1..Len(s) |-> ToLowerChar(s[i])]

\* String.prototype.includes, and an unanchored match of a literal
Includes(s, p) ==
    \E i \in 1..(Len(s) - Len(p) + 1) : SubSeq(s, i, i + Len(p) - 1) = p


webSearchTriggers == <<
    <<"c", "u", "r", "r", "e", "n", "t">>,
    <<"l", "a", "t", "e", "s", "t">>,
    <<"r", "e", "c", "e", "n", "t">>,
    <<"t", "o", "d", "a", "y">>,
    <<"n", "e", "w", "s">>,
    <<"u", "p", "d", "a", "t", "e">>,
    <<"w", "h", "a", "t", " ", "i", "s", " ", "h", "a", "p", "p", "e", "n", "i", "n", "g">>,
    <<"d", "e", "v", "e", "l", "o", "p", "m", "e", "n", "t", "s">>,
    <<"t", "r", "e", "n", "d">>,
    <<"w", "e", "a", "t", "h", "e", "r">>,
    <<"s", "t", "o", "c", "k">>,
    <<"p", "r", "i", "c", "e">>,
    <<"m", "a", "r", "k", "e", "t">>,
    <<"c", "o", "m", "p", "a", "r", "i", "s", "o", "n">>,
    <<"v", "e", "r", "s", "u", "s">>,
    <<"v", "s">>,
    <<"o", "u", "t", "s", "i", "d", "e">>,
    <<"o", "n", "l", "i", "n", "e">>,
    <<"w", "e", "b">>,
    <<"i", "n", "t", "e", "r", "n", "e", "t">>,
    <<"s", "e", "a", "r", "c", "h">> >>

\* the alternatives of /today|now|current|latest|recent|this (week|month|year)/
TimeReferencePattern == <<
    <<"t", "o", "d", "a", "y">>,
    <<"n", "o", "w">>,
    <<"c", "u", "r", "r", "e", "n", "t">>,
    <<"l", "a", "t", "e", "s", "t">>,
    <<"r", "e", "c", "e", "n", "t">>,
    <<"t", "h", "i", "s", " ", "w", "e", "e", "k">>,
    <<"t", "h", "i", "s", " ", "m", "o", "n", "t", "h">>,
    <<"t", "h", "i", "s", " ", "y", "e", "a", "r">> >>

\* the alternatives of /what|who|when|where|why|how/
QuestionPattern == <<
    <<"w", "h", "a", "t">>,
    <<"w", "h", "o">>,
    <<"w", "h", "e", "n">>,
    <<"w", "h", "e", "r", "e">>,
    <<"w", "h", "y">>,
    <<"h", "o", "w">> >>

WordDocument == <<"d", "o", "c", "u", "m", "e", "n", "t">>

WordFile == <<"f", "i", "l", "e">>

MatchesAny(s, patterns) ==
    \E k \in 1..Len(patterns) : Includes(s, patterns[k])

needsWebSearchWithoutExclusion(message) ==
    LET lowerMessage == toLowerCase(message)
        hasTimeReference == MatchesAny(lowerMessage, TimeReferencePattern)
        hasTriggerWord == MatchesAny(lowerMessage, webSearchTriggers)
        isQuestionAboutWorld == MatchesAny(lowerMessage, QuestionPattern)
    IN  hasTimeReference \/ hasTriggerWord \/ isQuestionAboutWorld

needsWebSearch(message) ==
    LET lowerMessage == toLowerCase(message)
        hasTimeReference == MatchesAny(lowerMessage, TimeReferencePattern)
        hasTriggerWord == MatchesAny(lowerMessage, webSearchTriggers)
        isQuestionAboutWorld ==
            /\ MatchesAny(lowerMessage, QuestionPattern)
            /\ ~Includes(lowerMessage, WordDocument)
            /\ ~Includes(lowerMessage, WordFile)
    IN  hasTimeReference \/ hasTriggerWord \/ isQuestionAboutWorld

(***************************************************************************)
(* Values the model draws its inputs from.                                 *)
(***************************************************************************)
\* bytes of the uploaded file, as the transport reports them
FileSizes == {1}

\* totals the transport reports in the upload lane's own specification; 0 is
\* a body whose length the transport cannot compute
UploadTotals == {0, 2, 3}

\* the most bytes a progress event reports as sent
MaxLoaded == 3

\* what the user types into the message field
InputTexts == {<<>>, <<" ">>, <<" ", "h">>}

\* words the search heuristic is tried on
SearchWords == <<
    <<"H", "o", "w">>,
    <<"w", "h", "a", "t">>,
    <<"N", "O", "W">>,
    <<"t", "h", "i", "s">>,
    <<"w", "e", "e", "k">>,
    <<"d", "o", "c", "u", "m", "e", "n", "t">>,
    <<"p", "r", "o", "f", "i", "l", "e">>,
    <<"w", "e", "b">>,
    <<"n", "e", "w", "s">>,
    <<"o", "p", "e", "n">>,
    <<"m", "y">>,
    <<"x">> >>

\* the example "How do I open my document?"
HowDoIOpenMyDocument ==
    <<"H", "o", "w", " ", "d", "o", " ", "I", " ", "o", "p", "e", "n", " ", "m", "y", " ", "d", "o", "c", "u", "m", "e", "n", "t", "?">>

\* texts of at most two of the words, and the example
SearchTexts ==
    {<<>>, HowDoIOpenMyDocument}
        \cup {SearchWords[i] : i \in 1..Len(SearchWords)}
        \cup {SearchWords[i] \o <<" ">> \o SearchWords[j] :
                  i, j \in 1..Len(SearchWords)}

\* what the chat service answers
ReplyContents == {<<"o", "k">>}

\* names of the files the user can choose
FileNames == {<<"b">>}

Document(id, filename) == [document_id |-> id, filename |-> filename]

\* the remote store when the model starts
InitialServerDocuments == <<Document(1, <<"a">>)>>

\* localStorage.getItem('chatMessages'): null, or the stored text
NoItem == [present |-> FALSE, text |-> <<>>]

Item(text) == [present |-> TRUE, text |-> text]

\* the slot before the first session: never written, empty, cut short,
\* written by something else, or written by an earlier session
InitialSlots ==
    { NoItem, Item(<<>>), Item(<<"[">>), Item(NullLiteral),
      Item(JSONStringify(<<>>)),
      Item(JSONStringify(<<Message(RoleUser, <<"h">>)>>)) }

NoFile == [present |-> FALSE, name |-> <<>>]

File(name) == [present |-> TRUE, name |-> name]

NoRestore == [valid |-> FALSE, msgs |-> <<>>]

NoLog == [set |-> FALSE, log |-> <<>>]

RemoveAt(s, i) == SubSeq(s, 1, i - 1) \o SubSeq(s, i + 1, Len(s))

\* a JavaScript number: an integer, or one of the values a division by 0 gives
Finite(n) == [kind |-> "finite", value |-> n]

Infinity == [kind |-> "Infinity", value |-> 0]

NaN == [kind |-> "NaN", value |-> 0]

\* Math.round((n * 100) / d) for n >= 0, d >= 0; nothing clamps the result
Percent(n, d) ==
    IF d = 0 THEN (IF n = 0 THEN NaN ELSE Infinity)
    ELSE Finite((2 * n * 100 + d) \div (2 * d))

\* percentCompleted for an event of n bytes sent of d; when the length is not
\* computable (d = 0) the event's total is 0 or undefined, as the transport
\* library in the build has it, and the quotient is Infinity or NaN
PercentCompleted(n, d) ==
    IF d = 0 THEN {Percent(n, 0), NaN} ELSE {Percent(n, d)}

(***************************************************************************)
(* State.                                                                  *)
(***************************************************************************)
VARIABLES
    session,         \* unmounted | restoring | running | crashed
    messages,        \* App: useState([])
    inputMessage,    \* App: useState('')
    isLoading,       \* App: useState(false)
    documents,       \* App: useState([])
    selectedFile,    \* FileUpload: useState(null)
    isUploading,     \* FileUpload: useState(false)
    uploadProgress,  \* FileUpload: useState(0)
    chatMessages,    \* localStorage item 'chatMessages'
    pendingRestore,  \* the setMessages(JSON.parse(..)) queued by the mount effect
    chatCalls,       \* POST /chat requests in flight
    uploadCalls,     \* POST /upload-document requests in flight
    deleteCalls,     \* DELETE /documents/<id> requests in flight
    listCalls,       \* GET /documents requests in flight
    serverDocuments, \* the remote document store
    serverNextId,    \* the id the remote store gives the next document
    prevLog          \* history: the log of the session the last reload ended

vars == <<session, messages, inputMessage, isLoading, documents, selectedFile,
          isUploading, uploadProgress, chatMessages, pendingRestore, chatCalls,
          uploadCalls, deleteCalls, listCalls, serverDocuments, serverNextId,
          prevLog>>

appVars == <<messages, inputMessage, isLoading, documents>>

uploadVars == <<selectedFile, isUploading, uploadProgress>>

serverVars == <<serverDocuments, serverNextId>>

Init ==
    /\ session = "unmounted"
    /\ messages = <<>>
    /\ inputMessage = <<>>
    /\ isLoading = FALSE
    /\ documents = <<>>
    /\ selectedFile = NoFile
    /\ isUploading = FALSE
    /\ uploadProgress = Finite(0)
    /\ chatMessages \in InitialSlots
    /\ pendingRestore = NoRestore
    /\ chatCalls = <<>>
    /\ uploadCalls = <<>>
    /\ deleteCalls = <<>>
    /\ listCalls = <<>>
    /\ serverDocuments = InitialServerDocuments
    /\ serverNextId = Len(InitialServerDocuments) + 1
    /\ prevLog = NoLog

(***************************************************************************)
(* App: effects.                                                           *)
(***************************************************************************)
\* useEffect(.., [messages]): the whole log, serialized, replaces the slot
PersistLastOnly(msgs) ==
    Item(JSONStringify(IF msgs = <<>> THEN <<>> ELSE <<msgs[Len(msgs)]>>))

PersistEffect(msgs) == Item(JSONStringify(msgs))

\* a committed setMessages: the render and the save effect that follows it
SetMessages(msgs) ==
    /\ messages' = msgs
    /\ chatMessages' = PersistEffect(msgs)

\* loadDocuments(): the list request leaves
LoadDocuments(calls) == Append(calls, [stage |-> "sent", docs |-> <<>>])

\* messages the log is certain to receive from calls in flight: a chat call
\* and a delete append on either outcome, an upload only when it succeeds
Reserved == Len(chatCalls) + Len(deleteCalls)

\* First render and its effects.  The load effect reads the slot; a text
\* JSON.parse rejects throws out of the effect, before loadDocuments(), and
\* the tree is unmounted; whether the save effect of the same component still
\* ran is left open.  Otherwise the parsed value is queued with setMessages,
\* the document list is requested, and the save effect stores the log of this
\* first render, which is empty.
Mount ==
    /\ session = "unmounted"
    /\ UNCHANGED <<appVars, uploadVars, serverVars, chatCalls, uploadCalls,
                   deleteCalls>>
    /\ IF chatMessages.present /\ chatMessages.text # <<>>
       THEN LET parsed == JSONParse(chatMessages.text) IN
            IF ~parsed.ok
            THEN /\ session' = "crashed"
                 /\ chatMessages' \in {chatMessages, PersistEffect(messages)}
                 /\ UNCHANGED <<pendingRestore, listCalls, prevLog>>
            ELSE /\ session' = "restoring"
                 /\ pendingRestore' =
                        IF IsMessageArray(parsed.val)
                        THEN [valid |-> TRUE, msgs |-> AsMessages(parsed.val)]
                        ELSE NoRestore
                 /\ listCalls' = LoadDocuments(listCalls)
                 /\ chatMessages' = PersistEffect(messages)
                 /\ UNCHANGED prevLog
       ELSE /\ session' = "running"
            /\ listCalls' = LoadDocuments(listCalls)
            /\ chatMessages' = PersistEffect(messages)
            /\ prevLog' = NoLog
            /\ UNCHANGED pendingRestore

\* The render the queued setMessages causes.  A value that is no array of
\* messages throws in the chat view and the tree is unmounted.
CommitRestore ==
    /\ session = "restoring"
    /\ pendingRestore' = NoRestore
    /\ prevLog' = NoLog
    /\ UNCHANGED <<inputMessage, isLoading, documents, uploadVars, serverVars,
                   chatCalls, uploadCalls, deleteCalls>>
    /\ IF pendingRestore.valid
       THEN /\ session' = "running"
            /\ SetMessages(pendingRestore.msgs)
            /\ UNCHANGED listCalls
       ELSE /\ session' = "crashed"
            /\ listCalls' = <<>>
            /\ UNCHANGED <<messages, chatMessages>>

\* The page is reloaded or closed: memory and the calls in flight are gone,
\* the slot and the remote store stay.
Reload ==
    /\ session # "unmounted"
    /\ session' = "unmounted"
    /\ prevLog' = IF session \in {"running", "restoring"}
                  THEN [set |-> TRUE, log |-> messages]
                  ELSE NoLog
    /\ messages' = <<>>
    /\ inputMessage' = <<>>
    /\ isLoading' = FALSE
    /\ documents' = <<>>
    /\ selectedFile' = NoFile
    /\ isUploading' = FALSE
    /\ uploadProgress' = Finite(0)
    /\ pendingRestore' = NoRestore
    /\ chatCalls' = <<>>
    /\ uploadCalls' = <<>>
    /\ deleteCalls' = <<>>
    /\ listCalls' = <<>>
    /\ UNCHANGED <<chatMessages, serverVars>>

(***************************************************************************)
(* Conversation lane.                                                      *)
(***************************************************************************)
\* MessageInput: onChange of the field, which is disabled while loading
SetInputMessage(text) ==
    /\ session = "running"
    /\ ~isLoading
    /\ inputMessage' = text
    /\ UNCHANGED <<session, messages, isLoading, documents, uploadVars,
                   chatMessages, pendingRestore, chatCalls, uploadCalls,
                   deleteCalls, listCalls, serverVars, prevLog>>

\* MessageInput: the field (Enter key) and the send button are disabled
\* while loading
SendControlBlockedByUpload == ~isLoading /\ ~isUploading

SendControlEnabled == ~isLoading

\* handleSendMessage: the guard on the input
IsEmptyUntrimmed(text) == text = <<>>

IsBlank(text) == Trim(text) = <<>>

\* sendMessage(messages, searchWeb): the body of the POST
ChatRequestLastOnly(msgs, searchWeb) ==
    [messages |-> <<msgs[Len(msgs)]>>, search_web |-> searchWeb]

ChatRequest(msgs, searchWeb) == [messages |-> msgs, search_web |-> searchWeb]

HandleSendMessage ==
    /\ session = "running"
    /\ SendControlEnabled
    /\ UNCHANGED <<session, documents, uploadVars, pendingRestore, uploadCalls,
                   deleteCalls, listCalls, serverVars, prevLog>>
    /\ IF IsBlank(inputMessage)
       THEN UNCHANGED <<messages, inputMessage, isLoading, chatMessages,
                        chatCalls>>
       ELSE LET userMessage == Message(RoleUser, inputMessage) IN
            /\ Len(messages) + Reserved + 2 <= MaxMsgs
            /\ SetMessages(Append(messages, userMessage))
            /\ inputMessage' = <<>>
            /\ isLoading' = TRUE
            /\ chatCalls' = Append(chatCalls,
                   ChatRequest(Append(messages, userMessage),
                               needsWebSearch(inputMessage)))

\* the chat call returned: the reply is appended
ChatResolveOverStaleLog(i, content) ==
    /\ session = "running"
    /\ i \in 1..Len(chatCalls)
    /\ chatCalls' = RemoveAt(chatCalls, i)
    /\ SetMessages(Append(chatCalls[i].messages,
                          Message(RoleAssistant, content)))
    /\ isLoading' = FALSE
    /\ UNCHANGED <<session, inputMessage, documents, uploadVars, pendingRestore,
                   uploadCalls, deleteCalls, listCalls, serverVars, prevLog>>

ChatResolve(i, content) ==
    /\ session = "running"
    /\ i \in 1..Len(chatCalls)
    /\ chatCalls' = RemoveAt(chatCalls, i)
    /\ SetMessages(Append(messages, Message(RoleAssistant, content)))
    /\ isLoading' = FALSE
    /\ UNCHANGED <<session, inputMessage, documents, uploadVars, pendingRestore,
                   uploadCalls, deleteCalls, listCalls, serverVars, prevLog>>

\* the catch branch of handleSendMessage: what the log becomes
FallbackOverStaleLog(prev, request) == Append(request.messages, FallbackMessage)

FallbackAppended(prev, request) == Append(prev, FallbackMessage)

\* the chat call failed
ChatRejectWithoutFinally(i) ==
    /\ session = "running"
    /\ i \in 1..Len(chatCalls)
    /\ chatCalls' = RemoveAt(chatCalls, i)
    /\ SetMessages(FallbackAppended(messages, chatCalls[i]))
    /\ UNCHANGED <<session, isLoading, inputMessage, documents, uploadVars, pendingRestore,
                   uploadCalls, deleteCalls, listCalls, serverVars, prevLog>>

ChatReject(i) ==
    /\ session = "running"
    /\ i \in 1..Len(chatCalls)
    /\ chatCalls' = RemoveAt(chatCalls, i)
    /\ SetMessages(FallbackAppended(messages, chatCalls[i]))
    /\ isLoading' = FALSE
    /\ UNCHANGED <<session, inputMessage, documents, uploadVars, pendingRestore,
                   uploadCalls, deleteCalls, listCalls, serverVars, prevLog>>

(***************************************************************************)
(* Upload lane (FileUpload).                                               *)
(***************************************************************************)
\* FileInput: onChange of the file field, which is disabled while uploading;
\* a cancelled dialog leaves files[0] undefined
HandleFileChange(file) ==
    /\ session = "running"
    /\ ~isUploading
    /\ selectedFile' = file
    /\ UNCHANGED <<session, appVars, isUploading, uploadProgress, chatMessages,
                   pendingRestore, chatCalls, uploadCalls, deleteCalls,
                   listCalls, serverVars, prevLog>>

\* UploadButton: rendered when a file is selected, disabled while uploading
UploadControlNeverDisabled == selectedFile.present

UploadControlEnabled == selectedFile.present /\ ~isUploading

\* handleUpload up to the await; size is the length of the file
HandleUpload(size) ==
    /\ session = "running"
    /\ UploadControlEnabled
    /\ isUploading' = TRUE
    /\ uploadProgress' = Finite(0)
    /\ uploadCalls' = Append(uploadCalls,
           [name |-> selectedFile.name, loaded |-> 0, total |-> size])
    /\ UNCHANGED <<session, appVars, selectedFile, chatMessages, pendingRestore,
                   chatCalls, deleteCalls, listCalls, serverVars, prevLog>>

\* onUploadProgress: the transport reports the bytes sent so far
UploadProgressEvent(i, loaded) ==
    /\ session = "running"
    /\ i \in 1..Len(uploadCalls)
    /\ loaded > uploadCalls[i].loaded
    /\ uploadCalls[i].total > 0 => loaded <= uploadCalls[i].total
    /\ uploadCalls' = [uploadCalls EXCEPT ![i].loaded = loaded]
    /\ uploadProgress' \in PercentCompleted(loaded, uploadCalls[i].total)
    /\ UNCHANGED <<session, appVars, selectedFile, isUploading, chatMessages,
                   pendingRestore, chatCalls, deleteCalls, listCalls,
                   serverVars, prevLog>>

\* The upload returned: the store holds the new document; handleFileUpload
\* asks for the list and appends its message; the selection and the upload
\* state are reset.
UploadResolveKeepsSelection(i) ==
    /\ session = "running"
    /\ i \in 1..Len(uploadCalls)
    /\ serverNextId <= Len(InitialServerDocuments) + MaxUploads
    /\ Len(messages) + Reserved + 1 <= MaxMsgs
    /\ uploadCalls' = RemoveAt(uploadCalls, i)
    /\ serverDocuments' =
           Append(serverDocuments, Document(serverNextId, uploadCalls[i].name))
    /\ serverNextId' = serverNextId + 1
    /\ listCalls' = LoadDocuments(listCalls)
    /\ SetMessages(Append(messages, UploadedMessage(uploadCalls[i].name)))
    /\ isUploading' = FALSE
    /\ uploadProgress' = Finite(0)
    /\ UNCHANGED <<session, selectedFile, inputMessage, isLoading, documents, pendingRestore,
                   chatCalls, deleteCalls, prevLog>>

UploadResolve(i) ==
    /\ session = "running"
    /\ i \in 1..Len(uploadCalls)
    /\ serverNextId <= Len(InitialServerDocuments) + MaxUploads
    /\ Len(messages) + Reserved + 1 <= MaxMsgs
    /\ uploadCalls' = RemoveAt(uploadCalls, i)
    /\ serverDocuments' =
           Append(serverDocuments, Document(serverNextId, uploadCalls[i].name))
    /\ serverNextId' = serverNextId + 1
    /\ listCalls' = LoadDocuments(listCalls)
    /\ SetMessages(Append(messages, UploadedMessage(uploadCalls[i].name)))
    /\ selectedFile' = NoFile
    /\ isUploading' = FALSE
    /\ uploadProgress' = Finite(0)
    /\ UNCHANGED <<session, inputMessage, isLoading, documents, pendingRestore,
                   chatCalls, deleteCalls, prevLog>>

\* The upload failed: logged, and the upload state is reset.
UploadRejectRefreshes(i) ==
    /\ session = "running"
    /\ i \in 1..Len(uploadCalls)
    /\ uploadCalls' = RemoveAt(uploadCalls, i)
    /\ listCalls' = LoadDocuments(listCalls)
    /\ isUploading' = FALSE
    /\ uploadProgress' = Finite(0)
    /\ UNCHANGED <<session, appVars, selectedFile, chatMessages, pendingRestore,
                   chatCalls, deleteCalls, serverVars, prevLog>>

UploadReject(i) ==
    /\ session = "running"
    /\ i \in 1..Len(uploadCalls)
    /\ uploadCalls' = RemoveAt(uploadCalls, i)
    /\ isUploading' = FALSE
    /\ uploadProgress' = Finite(0)
    /\ UNCHANGED <<session, appVars, selectedFile, chatMessages, pendingRestore,
                   chatCalls, deleteCalls, listCalls, serverVars, prevLog>>

(***************************************************************************)
(* Document lane.                                                          *)
(***************************************************************************)
\* prevDocuments.filter(doc => doc.document_id !== documentId)
DropFirst(docs, id) == IF docs = <<>> THEN <<>> ELSE Tail(docs)

FilterOut(docs, id) ==
    LET Keep(doc) == doc.document_id # id IN SelectSeq(docs, Keep)

\* DocumentItem: the delete button of a listed document; handleDocumentDelete
\* up to the await
HandleDocumentDelete(id) ==
    /\ session = "running"
    /\ \E k \in 1..Len(documents) : documents[k].document_id = id
    /\ Len(messages) + Reserved + 1 <= MaxMsgs
    /\ deleteCalls' = Append(deleteCalls, [id |-> id, registry |-> documents])
    /\ UNCHANGED <<session, appVars, uploadVars, chatMessages, pendingRestore,
                   chatCalls, uploadCalls, listCalls, serverVars, prevLog>>

\* The delete returned: the store dropped the document, the registry drops
\* it and the confirmation is appended.
DeleteResolve(i) ==
    /\ session = "running"
    /\ i \in 1..Len(deleteCalls)
    /\ deleteCalls' = RemoveAt(deleteCalls, i)
    /\ serverDocuments' = FilterOut(serverDocuments, deleteCalls[i].id)
    /\ documents' = FilterOut(documents, deleteCalls[i].id)
    /\ SetMessages(Append(messages, DeleteOkMessage))
    /\ UNCHANGED <<session, inputMessage, isLoading, uploadVars, pendingRestore,
                   chatCalls, uploadCalls, listCalls, serverNextId, prevLog>>

\* The delete failed: the catch branch appends the error message.
DeleteRejectOptimistic(i) ==
    /\ session = "running"
    /\ i \in 1..Len(deleteCalls)
    /\ deleteCalls' = RemoveAt(deleteCalls, i)
    /\ documents' = FilterOut(documents, deleteCalls[i].id)
    /\ SetMessages(Append(messages, DeleteErrMessage))
    /\ UNCHANGED <<session, inputMessage, isLoading, uploadVars, pendingRestore,
                   chatCalls, uploadCalls, listCalls, serverVars, prevLog>>

DeleteReject(i) ==
    /\ session = "running"
    /\ i \in 1..Len(deleteCalls)
    /\ deleteCalls' = RemoveAt(deleteCalls, i)
    /\ SetMessages(Append(messages, DeleteErrMessage))
    /\ UNCHANGED <<session, inputMessage, isLoading, documents, uploadVars,
                   pendingRestore, chatCalls, uploadCalls, listCalls,
                   serverVars, prevLog>>

\* The remote store answers a list request with what it holds.
ListServe(i) ==
    /\ session = "running"
    /\ i \in 1..Len(listCalls)
    /\ listCalls[i].stage = "sent"
    /\ listCalls' = [listCalls EXCEPT
                        ![i] = [stage |-> "done", docs |-> serverDocuments]]
    /\ UNCHANGED <<session, appVars, uploadVars, chatMessages, pendingRestore,
                   chatCalls, uploadCalls, deleteCalls, serverVars, prevLog>>

\* loadDocuments after the await: the answer replaces the registry
ListResolve(i) ==
    /\ session = "running"
    /\ i \in 1..Len(listCalls)
    /\ listCalls[i].stage = "done"
    /\ listCalls' = RemoveAt(listCalls, i)
    /\ documents' = listCalls[i].docs
    /\ UNCHANGED <<session, messages, inputMessage, isLoading, uploadVars,
                   chatMessages, pendingRestore, chatCalls, uploadCalls,
                   deleteCalls, serverVars, prevLog>>

\* loadDocuments, catch branch: the list call failed, which is logged
ListReject(i) ==
    /\ session = "running"
    /\ i \in 1..Len(listCalls)
    /\ listCalls[i].stage = "sent"
    /\ listCalls' = RemoveAt(listCalls, i)
    /\ UNCHANGED <<session, appVars, uploadVars, chatMessages, pendingRestore,
                   chatCalls, uploadCalls, deleteCalls, serverVars, prevLog>>

(***************************************************************************)
(* Specification.                                                          *)
(***************************************************************************)
Next ==
    \/ Mount
    \/ CommitRestore
    \/ Reload
    \/ \E text \in InputTexts : SetInputMessage(text)
    \/ HandleSendMessage
    \/ \E i \in 1..Len(chatCalls), content \in ReplyContents :
           ChatResolve(i, content)
    \/ \E i \in 1..Len(chatCalls) : ChatReject(i)
    \/ \E file \in {NoFile} \cup {File(n) : n \in FileNames} :
           HandleFileChange(file)
    \/ \E size \in FileSizes : HandleUpload(size)
    \/ \E i \in 1..Len(uploadCalls) : \E loaded \in 1..uploadCalls[i].total :
           UploadProgressEvent(i, loaded)
    \/ \E i \in 1..Len(uploadCalls) : UploadResolve(i)
    \/ \E i \in 1..Len(uploadCalls) : UploadReject(i)
    \/ \E k \in 1..Len(documents) :
           HandleDocumentDelete(documents[k].document_id)
    \/ \E i \in 1..Len(deleteCalls) : DeleteResolve(i)
    \/ \E i \in 1..Len(deleteCalls) : DeleteReject(i)
    \/ \E i \in 1..Len(listCalls) : ListServe(i)
    \/ \E i \in 1..Len(listCalls) : ListResolve(i)
    \/ \E i \in 1..Len(listCalls) : ListReject(i)

Spec == Init /\ [][Next]_vars

(***************************************************************************)
(* One session, and one session in which every remote call that was issued *)
(* returns or fails in the end.                                            *)
(***************************************************************************)
\* a chat call leaves the calls in flight: it returned or it failed
ChatCompletes ==
    /\ session = "running"
    /\ session' = "running"
    /\ \E i \in 1..Len(chatCalls) : chatCalls' = RemoveAt(chatCalls, i)

UploadCompletes ==
    /\ session = "running"
    /\ session' = "running"
    /\ \E i \in 1..Len(uploadCalls) : uploadCalls' = RemoveAt(uploadCalls, i)

DeleteCompletes ==
    /\ session = "running"
    /\ session' = "running"
    /\ \E i \in 1..Len(deleteCalls) : deleteCalls' = RemoveAt(deleteCalls, i)

\* one session, from its start on: the page is not reloaded
SessionNext ==
    \/ Mount
    \/ CommitRestore
    \/ \E text \in InputTexts : SetInputMessage(text)
    \/ HandleSendMessage
    \/ \E i \in 1..Len(chatCalls), content \in ReplyContents :
           ChatResolve(i, content)
    \/ \E i \in 1..Len(chatCalls) : ChatReject(i)
    \/ \E file \in {NoFile} \cup {File(n) : n \in FileNames} :
           HandleFileChange(file)
    \/ \E size \in FileSizes : HandleUpload(size)
    \/ \E i \in 1..Len(uploadCalls) : \E loaded \in 1..uploadCalls[i].total :
           UploadProgressEvent(i, loaded)
    \/ \E i \in 1..Len(uploadCalls) : UploadResolve(i)
    \/ \E i \in 1..Len(uploadCalls) : UploadReject(i)
    \/ \E k \in 1..Len(documents) :
           HandleDocumentDelete(documents[k].document_id)
    \/ \E i \in 1..Len(deleteCalls) : DeleteResolve(i)
    \/ \E i \in 1..Len(deleteCalls) : DeleteReject(i)
    \/ \E i \in 1..Len(listCalls) : ListServe(i)
    \/ \E i \in 1..Len(listCalls) : ListResolve(i)
    \/ \E i \in 1..Len(listCalls) : ListReject(i)

SessionSpec == Init /\ [][SessionNext]_vars

LiveSpec ==
    /\ SessionSpec
    /\ WF_chatCalls(ChatCompletes)
    /\ WF_uploadCalls(UploadCompletes)
    /\ WF_deleteCalls(DeleteCompletes)

(***************************************************************************)
(* The conversation lane on the search texts: a running session with a     *)
(* text typed into the field, the upload lane beside it.                   *)
(***************************************************************************)
SearchInit ==
    /\ session = "running"
    /\ messages = <<>>
    /\ inputMessage \in SearchTexts
    /\ isLoading = FALSE
    /\ documents = InitialServerDocuments
    /\ selectedFile = NoFile
    /\ isUploading = FALSE
    /\ uploadProgress = Finite(0)
    /\ chatMessages = PersistEffect(messages)
    /\ pendingRestore = NoRestore
    /\ chatCalls = <<>>
    /\ uploadCalls = <<>>
    /\ deleteCalls = <<>>
    /\ listCalls = <<>>
    /\ serverDocuments = InitialServerDocuments
    /\ serverNextId = Len(InitialServerDocuments) + 1
    /\ prevLog = NoLog

SearchNext ==
    \/ HandleSendMessage
    \/ \E i \in 1..Len(chatCalls), content \in ReplyContents :
           ChatResolve(i, content)
    \/ \E i \in 1..Len(chatCalls) : ChatReject(i)
    \/ \E n \in FileNames : HandleFileChange(File(n))
    \/ \E size \in FileSizes : HandleUpload(size)
    \/ \E i \in 1..Len(uploadCalls) : UploadResolve(i)

SearchSpec == SearchInit /\ [][SearchNext]_vars

(***************************************************************************)
(* The upload lane on the events a transport can deliver: several progress *)
(* events an upload, and bodies whose length is not computable; the        *)
(* document lane runs beside it.                                           *)
(***************************************************************************)
UploadInit ==
    /\ session = "running"
    /\ messages = <<>>
    /\ inputMessage = <<>>
    /\ isLoading = FALSE
    /\ documents = InitialServerDocuments
    /\ selectedFile = NoFile
    /\ isUploading = FALSE
    /\ uploadProgress = Finite(0)
    /\ chatMessages = PersistEffect(messages)
    /\ pendingRestore = NoRestore
    /\ chatCalls = <<>>
    /\ uploadCalls = <<>>
    /\ deleteCalls = <<>>
    /\ listCalls = <<>>
    /\ serverDocuments = InitialServerDocuments
    /\ serverNextId = Len(InitialServerDocuments) + 1
    /\ prevLog = NoLog

UploadNext ==
    \/ \E file \in {NoFile} \cup {File(n) : n \in FileNames} :
           HandleFileChange(file)
    \/ \E size \in UploadTotals : HandleUpload(size)
    \/ \E i \in 1..Len(uploadCalls) : \E loaded \in 1..MaxLoaded :
           UploadProgressEvent(i, loaded)
    \/ \E i \in 1..Len(uploadCalls) : UploadResolve(i)
    \/ \E i \in 1..Len(uploadCalls) : UploadReject(i)
    \/ \E k \in 1..Len(documents) :
           HandleDocumentDelete(documents[k].document_id)
    \/ \E i \in 1..Len(deleteCalls) : DeleteResolve(i)
    \/ \E i \in 1..Len(deleteCalls) : DeleteReject(i)
    \/ \E i \in 1..Len(listCalls) : ListServe(i)
    \/ \E i \in 1..Len(listCalls) : ListResolve(i)
    \/ \E i \in 1..Len(listCalls) : ListReject(i)

UploadSpec == UploadInit /\ [][UploadNext]_vars

(***************************************************************************)
(* The upload and the document lane of a fresh session when every remote   *)
(* call succeeds.                                                          *)
(***************************************************************************)
ReliableInit == Init /\ chatMessages = NoItem

ReliableNext ==
    \/ Mount
    \/ \E n \in FileNames : HandleFileChange(File(n))
    \/ \E size \in FileSizes : HandleUpload(size)
    \/ \E i \in 1..Len(uploadCalls) : \E loaded \in 1..uploadCalls[i].total :
           UploadProgressEvent(i, loaded)
    \/ \E i \in 1..Len(uploadCalls) : UploadResolve(i)
    \/ \E k \in 1..Len(documents) :
           HandleDocumentDelete(documents[k].document_id)
    \/ \E i \in 1..Len(deleteCalls) : DeleteResolve(i)
    \/ \E i \in 1..Len(listCalls) : ListServe(i)
    \/ \E i \in 1..Len(listCalls) : ListResolve(i)

ReliableSpec == ReliableInit /\ [][ReliableNext]_vars

(***************************************************************************)
(* Properties.                                                             *)
(***************************************************************************)
\* messages the upload and the document lane append
OtherLaneMessages ==
    {DeleteOkMessage, DeleteErrMessage}
        \cup {UploadedMessage(n) : n \in FileNames}

IsPrefix(p, s) == Len(p) <= Len(s) /\ SubSeq(s, 1, Len(p)) = p

\* the entries of docs whose id is not id, in their order
RECURSIVE Without(_, _)
Without(docs, id) ==
    IF docs = <<>> THEN <<>>
    ELSE IF Head(docs).document_id = id THEN Without(Tail(docs), id)
    ELSE <<Head(docs)>> \o Without(Tail(docs), id)

\* C1, as stated: when a chat call fails, the log is exactly 2 longer than
\* before the send (the request carries the log before the send and the user
\* message, so 1 longer than the request) and the lane is idle.
C1_FailedSendGrowsLogByTwo ==
    [][\A i \in 1..Len(chatCalls) :
          ChatReject(i) =>
              /\ Len(messages') = Len(chatCalls[i].messages) + 1
              /\ ~isLoading']_vars

\* C1, amended: when a chat call fails, the log is the log before the send,
\* the user message, the messages upload and delete completions appended
\* while the call was outstanding, and the fallback message last; nothing of
\* the log is lost and the lane is idle.
C1_FailedSendAppendsFallback ==
    [][\A i \in 1..Len(chatCalls) :
          ChatReject(i) =>
              LET request == chatCalls[i].messages IN
              /\ messages' = Append(messages, FallbackMessage)
              /\ IsPrefix(request, messages)
              /\ \A k \in (Len(request) + 1)..Len(messages) :
                     messages[k] \in OtherLaneMessages
              /\ ~isLoading'
              /\ session' = "running"]_vars

\* C1, witness: a failed send with a completion of another lane in between
C1_Witness ==
    /\ session = "running"
    /\ ~isLoading
    /\ Len(messages) >= 3
    /\ messages[Len(messages)] = FallbackMessage
    /\ messages[Len(messages) - 1] \in OtherLaneMessages
    /\ messages[Len(messages) - 2].role = RoleUser

\* C2: restore never raises; whatever the slot holds, the session does not
\* end in an error state.
C2_RestoreNeverRaises == session # "crashed"

\* C3: the slot is written only as the result of an append; a step that
\* appends nothing, such as starting the session, leaves the slot as it was.
C3_SlotWrittenOnlyByAppend ==
    [][chatMessages' # chatMessages =>
          \E k \in 1..Len(messages') :
              messages' = Append(messages, messages'[k])]_vars

\* C4: round trip; the session that follows a reload restores exactly the
\* log the ended session held, in order, and does not fail doing so.
C4_RoundTrip ==
    prevLog.set =>
        /\ session # "crashed"
        /\ session = "restoring" =>
               /\ pendingRestore.valid
               /\ pendingRestore.msgs = prevLog.log

\* C4, witness: a log of several messages, one with quotes in it, restored
C4_Witness ==
    /\ session = "restoring"
    /\ prevLog.set
    /\ Len(prevLog.log) >= 2
    /\ \E k \in 1..Len(prevLog.log) : prevLog.log[k] \in OtherLaneMessages
    /\ pendingRestore.msgs = prevLog.log

\* C5: once the session has started, the slot holds the serialization of the
\* whole log after every update.
C5_SlotIsWholeLog ==
    session \in {"restoring", "running"} =>
        chatMessages = Item(JSONStringify(messages))

\* C5, witness: a log of several messages and the slot that holds it
C5_Witness ==
    /\ session = "running"
    /\ Len(messages) >= 2
    /\ chatMessages = Item(JSONStringify(messages))

\* C6: a send whose input is empty after trimming appends nothing, calls
\* nothing and leaves the lane idle.
C6_BlankSendIsNoOp ==
    [][(HandleSendMessage /\ Trim(inputMessage) = <<>>) =>
          /\ UNCHANGED <<messages, chatMessages, chatCalls, inputMessage>>
          /\ ~isLoading']_vars

\* C6, witness: white space in the field with the send control enabled, the
\* state a blank send starts from and ends in
C6_Witness ==
    /\ session = "running"
    /\ ~isLoading
    /\ inputMessage # <<>>
    /\ Trim(inputMessage) = <<>>
    /\ chatCalls = <<>>

\* C7: when a delete of d succeeds, the registry holds no entry with id d,
\* holds every other entry it held, in order, and the confirmation is
\* appended.
C7_DeleteRemovesOnlyThatId ==
    [][\A i \in 1..Len(deleteCalls) :
          DeleteResolve(i) =>
              LET d == deleteCalls[i].id IN
              /\ \A k \in 1..Len(documents') : documents'[k].document_id # d
              /\ documents' = Without(documents, d)
              /\ messages' = Append(messages, DeleteOkMessage)]_vars

\* C7, witness: a delete succeeded and an entry with another id is listed
C7_Witness ==
    /\ session = "running"
    /\ messages # <<>>
    /\ messages[Len(messages)] = DeleteOkMessage
    /\ documents # <<>>
    /\ Len(serverDocuments) = Len(documents)
    /\ listCalls = <<>>

\* C8, as stated: when a delete fails, the registry equals what it was when
\* the delete was invoked, one error message is appended and the session
\* goes on.  Stated for the failed deletes during which no entry left the
\* registry, so that no other delete accounts for a difference.
C8_FailedDeleteRestoresRegistry ==
    [][\A i \in 1..Len(deleteCalls) :
          (/\ DeleteReject(i)
           /\ \A k \in 1..Len(deleteCalls[i].registry) :
                  \E j \in 1..Len(documents) :
                      documents[j] = deleteCalls[i].registry[k]) =>
              /\ documents' = deleteCalls[i].registry
              /\ messages' = Append(messages, DeleteErrMessage)
              /\ session' = "running"]_vars

\* C8, amended: when a delete fails, handling the failure leaves the registry
\* as it was just before, appends one error message and the session goes on.
C8_FailedDeleteLeavesRegistry ==
    [][\A i \in 1..Len(deleteCalls) :
          DeleteReject(i) =>
              /\ documents' = documents
              /\ messages' = Append(messages, DeleteErrMessage)
              /\ session' = "running"]_vars

\* C8, witness: a delete failed and the registry still lists documents
C8_Witness ==
    /\ session = "running"
    /\ messages # <<>>
    /\ messages[Len(messages)] = DeleteErrMessage
    /\ documents # <<>>

\* C9: at most one delete is in flight at any time.
C9_SingleDeleteInFlight == Len(deleteCalls) <= 1

\* C10: at most one chat call and at most one upload are in flight at any
\* time, and one is in flight exactly while its lane is not idle.
C10_SingleFlight ==
    /\ Len(chatCalls) <= 1
    /\ Len(uploadCalls) <= 1
    /\ isLoading <=> chatCalls # <<>>
    /\ isUploading <=> uploadCalls # <<>>

\* C10, witness: a chat call and an upload in flight at once
C10_Witness ==
    /\ Len(chatCalls) = 1
    /\ Len(uploadCalls) = 1
    /\ isLoading
    /\ isUploading

\* C11: the log is append-only; once the session runs, every step leaves the
\* log as it was or adds messages at its tail, whichever lane acts.
C11_LogAppendOnly ==
    [][(session = "running" /\ session' = "running") =>
          IsPrefix(messages, messages')]_vars

\* C11, witness: a log the upload lane and the conversation lane both
\* appended to, the upload's message between the question and its reply
C11_Witness ==
    /\ session = "running"
    /\ Len(messages) = 3
    /\ messages[1].role = RoleUser
    /\ messages[2] \in {UploadedMessage(n) : n \in FileNames}
    /\ messages[3] \in {Message(RoleAssistant, c) : c \in ReplyContents}
    /\ chatCalls = <<>>

\* C12: an accepted send gives the chat call the whole log as it stood when
\* the send was triggered, the new user message last, its content the raw
\* input, and search_web = needsWebSearch of the raw input; also when the
\* upload lane appended its message just before.
C12_RequestCarriesWholeLog ==
    [][(HandleSendMessage /\ Trim(inputMessage) # <<>>) =>
          LET userMessage == [role |-> RoleUser, content |-> inputMessage] IN
          /\ Len(chatCalls') = Len(chatCalls) + 1
          /\ chatCalls'[Len(chatCalls')].messages = messages \o <<userMessage>>
          /\ chatCalls'[Len(chatCalls')].search_web =
                 needsWebSearch(inputMessage)
          /\ messages' = messages \o <<userMessage>>]_vars

\* C12, witness: a request in flight that carries the upload's message and,
\* after it, a user message for which a web search is asked
C12_Witness ==
    /\ Len(chatCalls) = 1
    /\ chatCalls[1].search_web
    /\ Len(chatCalls[1].messages) = 2
    /\ chatCalls[1].messages[1] \in {UploadedMessage(n) : n \in FileNames}
    /\ chatCalls[1].messages[2].role = RoleUser
    /\ chatCalls[1].messages = messages

\* p <= q for progress values; Infinity is above every number, NaN compares
\* with nothing
ProgressLeq(p, q) ==
    /\ p.kind # "NaN"
    /\ q.kind # "NaN"
    /\ \/ q.kind = "Infinity"
       \/ p.kind = "finite" /\ q.kind = "finite" /\ p.value <= q.value

\* C13: an upload starts with status uploading and progress 0; while it is
\* in flight the progress never decreases; when it completes, by success or
\* by failure, status is idle and progress is 0.
C13_ProgressRisesThenResets ==
    [][/\ Len(uploadCalls') > Len(uploadCalls) =>
              isUploading' /\ uploadProgress' = Finite(0)
       /\ (uploadCalls # <<>> /\ Len(uploadCalls') = Len(uploadCalls)) =>
              isUploading' /\ ProgressLeq(uploadProgress, uploadProgress')
       /\ Len(uploadCalls') < Len(uploadCalls) =>
              ~isUploading' /\ uploadProgress' = Finite(0)]_vars

\* C14: in every state the upload progress is an integer in 0..100, whatever
\* events the transport delivers.
C14_ProgressInRange ==
    /\ uploadProgress.kind = "finite"
    /\ uploadProgress.value \in 0..100

\* C15: when an upload call fails, no message is appended, no list request
\* is issued, the registry is unchanged and the session goes on.
C15_FailedUploadIsSilent ==
    [][\A i \in 1..Len(uploadCalls) :
          UploadReject(i) =>
              /\ UNCHANGED <<messages, chatMessages, listCalls, documents>>
              /\ session' = "running"]_vars

\* C15, witness: an upload in flight that has sent bytes, a log and a
\* registry that are not empty and no list request about: the state a
\* failure of the upload is handled in
C15_Witness ==
    /\ session = "running"
    /\ Len(uploadCalls) = 1
    /\ uploadCalls[1].loaded > 0
    /\ messages # <<>>
    /\ documents # <<>>
    /\ listCalls = <<>>

\* C16: a successful upload resets the selection, issues exactly one list
\* request and appends exactly one message, which names the file that was
\* selected; no step of the upload lane changes the registry.
C16_UploadSucceeds ==
    [][/\ \A i \in 1..Len(uploadCalls) :
              UploadResolve(i) =>
                  /\ selectedFile' = NoFile
                  /\ listCalls' =
                         Append(listCalls, [stage |-> "sent", docs |-> <<>>])
                  /\ messages' =
                         Append(messages, UploadedMessage(selectedFile.name))
                  /\ messages'[Len(messages')].role = RoleAssistant
       /\ (session = "running" /\ session' = "running"
              /\ <<uploadVars, uploadCalls>>' # <<uploadVars, uploadCalls>>) =>
              documents' = documents]_vars

\* C16, witness: the upload succeeded; nothing is selected, the message is
\* the last of the log and the list request is on its way
C16_Witness ==
    /\ session = "running"
    /\ selectedFile = NoFile
    /\ ~isUploading
    /\ messages # <<>>
    /\ messages[Len(messages)] \in {UploadedMessage(n) : n \in FileNames}
    /\ Len(listCalls) = 1
    /\ listCalls[1].stage = "sent"
    /\ Len(documents) < Len(serverDocuments)

\* no remote call is outstanding
Quiescent ==
    /\ session = "running"
    /\ chatCalls = <<>>
    /\ uploadCalls = <<>>
    /\ deleteCalls = <<>>
    /\ listCalls = <<>>

\* C17: a list call that succeeds replaces the registry with the list it
\* returned; one that fails leaves the registry as it was; and once no call
\* is outstanding the registry is the remote document set.
C17_RegistryIsRemoteSetAtRest ==
    /\ [][/\ \A i \in 1..Len(listCalls) :
                  ListResolve(i) => documents' = listCalls[i].docs
          /\ \A i \in 1..Len(listCalls) :
                  ListReject(i) => documents' = documents]_vars
    /\ [](Quiescent => documents = serverDocuments)

\* the three signals as the claim words them, on a lower-cased text
ClaimedTemporal(lower) ==
    \/ \E w \in {<<"t", "o", "d", "a", "y">>,
                 <<"n", "o", "w">>,
                 <<"c", "u", "r", "r", "e", "n", "t">>,
                 <<"l", "a", "t", "e", "s", "t">>,
                 <<"r", "e", "c", "e", "n", "t">>} :
           Includes(lower, w)
    \/ \E unit \in {<<"w", "e", "e", "k">>,
                    <<"m", "o", "n", "t", "h">>,
                    <<"y", "e", "a", "r">>} :
           Includes(lower, <<"t", "h", "i", "s", " ">> \o unit)

ClaimedTrigger(lower) ==
    \E k \in 1..Len(webSearchTriggers) : Includes(lower, webSearchTriggers[k])

ClaimedQuestion(lower) ==
    /\ \E w \in {<<"w", "h", "a", "t">>,
                 <<"w", "h", "o">>,
                 <<"w", "h", "e", "n">>,
                 <<"w", "h", "e", "r", "e">>,
                 <<"w", "h", "y">>,
                 <<"h", "o", "w">>} :
           Includes(lower, w)
    /\ ~Includes(lower, <<"d", "o", "c", "u", "m", "e", "n", "t">>)
    /\ ~Includes(lower, <<"f", "i", "l", "e">>)

ClaimedNeedsWebSearch(text) ==
    LET lower == toLowerCase(text) IN
    ClaimedTemporal(lower) \/ ClaimedTrigger(lower) \/ ClaimedQuestion(lower)

\* C18: needsWebSearch(text) is true exactly when one of the three signals
\* holds on the lower-cased text; the empty text and the example with a
\* wh-word and "document" yield false.  Stated of the text in the field and
\* of the flag each request carries.
C18_ThreeSignals ==
    /\ needsWebSearch(inputMessage) = ClaimedNeedsWebSearch(inputMessage)
    /\ inputMessage \in {<<>>, HowDoIOpenMyDocument} =>
           ~needsWebSearch(inputMessage)
    /\ \A i \in 1..Len(chatCalls) :
           LET request == chatCalls[i]
               text == request.messages[Len(request.messages)].content
           IN  /\ request.search_web = ClaimedNeedsWebSearch(text)
               /\ text = HowDoIOpenMyDocument => ~request.search_web

\* C18, witness: the example was sent and its request asks for no search
C18_Witness ==
    /\ Len(chatCalls) = 1
    /\ chatCalls[1].messages[Len(chatCalls[1].messages)].content
           = HowDoIOpenMyDocument
    /\ ~chatCalls[1].search_web

\* C19: when every call that was issued completes or fails, a lane that left
\* idle returns to idle: a send in progress ends, an upload in progress
\* ends, the deletes in flight finish; and a call that fails leaves the
\* session running.
C19_LanesReturnToIdle ==
    /\ isLoading ~> ~isLoading
    /\ isUploading ~> ~isUploading
    /\ (deleteCalls # <<>>) ~> (deleteCalls = <<>>)
    /\ [][(\/ \E i \in 1..Len(chatCalls) : ChatReject(i)
           \/ \E i \in 1..Len(uploadCalls) : UploadReject(i)
           \/ \E i \in 1..Len(deleteCalls) : DeleteReject(i)
           \/ \E i \in 1..Len(listCalls) : ListReject(i)) =>
              session' = "running"]_vars

\* C19, witness: the conversation and the document lane are idle again
\* after a send and a delete that both failed
C19_Witness ==
    /\ Quiescent
    /\ ~isLoading
    /\ ~isUploading
    /\ \E k \in 1..Len(messages) : messages[k] = FallbackMessage
    /\ \E k \in 1..Len(messages) : messages[k] = DeleteErrMessage

\* C20: no lane blocks another.  Whether a send or an upload is accepted
\* depends on its own lane alone; starting or completing an operation of one
\* lane leaves the calls in flight and the state of the other lanes as they
\* were, and a completion adds its message to the log, so that completions
\* are processed in any order and none is lost.
C20_LanesDoNotBlock ==
    /\ [](session = "running" =>
             /\ SendControlEnabled <=> ~isLoading
             /\ UploadControlEnabled <=> (selectedFile.present /\ ~isUploading))
    /\ [][(session = "running" /\ session' = "running") =>
             /\ chatCalls' # chatCalls =>
                    UNCHANGED <<uploadCalls, deleteCalls, uploadVars, documents>>
             /\ uploadCalls' # uploadCalls =>
                    UNCHANGED <<chatCalls, deleteCalls, isLoading, inputMessage>>
             /\ deleteCalls' # deleteCalls =>
                    UNCHANGED <<chatCalls, uploadCalls, isLoading, uploadVars>>
             /\ (ChatCompletes \/ DeleteCompletes) =>
                    /\ Len(messages') = Len(messages) + 1
                    /\ IsPrefix(messages, messages')
             /\ UploadCompletes => IsPrefix(messages, messages')]_vars

\* C20, witness: operations of all three lanes outstanding at once
C20_Witness ==
    /\ session = "running"
    /\ Len(chatCalls) = 1
    /\ Len(uploadCalls) = 1
    /\ Len(deleteCalls) = 1

\* C21: a document whose delete succeeded never appears in the registry
\* again.  The remote store gives every document a new id and loses one only
\* by a delete that succeeded, which also removes it from the registry, so
\* the claim is that every document the registry lists is one the store
\* still holds.
C21_DeletedNeverReappears ==
    \A k \in 1..Len(documents) :
        \E j \in 1..Len(serverDocuments) :
            serverDocuments[j].document_id = documents[k].document_id
====
